---- MODULE Spec2Model ----
(***************************************************************************)
(* A model of wattpilotshell.py: the property codec, the MQTT bridge, the  *)
(* Home Assistant discovery batch and the shell's watch registry.          *)
(*                                                                         *)
(* Python values are records [t, n, s, items, names]; the contents of a    *)
(* Python str are a Text, the abstract syntax of the characters: an atom   *)
(* (a word or numeral), a double-quoted text, a bracketed list of texts or *)
(* a braced list of named texts.  str(), json.dumps and json.loads are     *)
(* translations between the two, so that "true" (a str) and True (a bool)  *)
(* are different values that json.loads relates.                           *)
(***************************************************************************)
EXTENDS Integers, Sequences, FiniteSets, TLC

\* ------------------------------------------------------------------ bounds

\* Largest integer raw value drawn as an input.
MaxNum == 2
\* Longest array raw value drawn as an input.
MaxLen == 2
\* top-level definitions of a catalog, and children of one definition
MaxParents == 2
MaxChildren == 2

\* ------------------------------------------------------------------- texts

Atom(a) == [k |-> "atom", a |-> a, items |-> <<>>, names |-> <<>>]
\* "..." around the text s
Quoted(s) == [k |-> "quoted", a |-> "", items |-> <<s>>, names |-> <<>>]
\* '...' around the text s (Python's repr of a str)
SQuoted(s) == [k |-> "squoted", a |-> "", items |-> <<s>>, names |-> <<>>]
\* [t1, t2, ...]
ArrText(ts) == [k |-> "arr", a |-> "", items |-> ts, names |-> <<>>]
\* {"n1": t1, ...}
ObjText(ns, ts) == [k |-> "obj", a |-> "", items |-> ts, names |-> ns]
\* namespace(n1=t1, ...) and {'n1': t1, ...}: Python's repr of an object
ReprText(kind, ns, ts) == [k |-> kind, a |-> "", items |-> ts, names |-> ns]

\* ------------------------------------------------------------------ values

NoText == Atom("")
PyBool(b) == [t |-> "bool", n |-> IF b THEN 1 ELSE 0, s |-> NoText, items |-> <<>>, names |-> <<>>]
PyInt(i) == [t |-> "int", n |-> i, s |-> NoText, items |-> <<>>, names |-> <<>>]
\* a float, held in tenths: PyFloat(15) is 1.5
PyFloat(m) == [t |-> "float", n |-> m, s |-> NoText, items |-> <<>>, names |-> <<>>]
PyStr(txt) == [t |-> "str", n |-> 0, s |-> txt, items |-> <<>>, names |-> <<>>]
PyNone == [t |-> "none", n |-> 0, s |-> NoText, items |-> <<>>, names |-> <<>>]
PyList(vs) == [t |-> "list", n |-> 0, s |-> NoText, items |-> vs, names |-> <<>>]
PyDict(ns, vs) == [t |-> "dict", n |-> 0, s |-> NoText, items |-> vs, names |-> ns]
\* a types.SimpleNamespace, the device session's form of a JSON object
PyNamespace(ns, vs) == [t |-> "ns", n |-> 0, s |-> NoText, items |-> vs, names |-> ns]
\* an exception leaving the called function
PyRaise(what) == [t |-> "error", n |-> 0, s |-> Atom(what), items |-> <<>>, names |-> <<>>]

IsError(v) == v.t = "error"
IsNumeric(v) == v.t \in {"bool", "int", "float"}
\* the number a numeric value stands for, in tenths
Tenths(v) == IF v.t = "float" THEN v.n ELSE 10 * v.n

SeqRange(s) == {s[i] : i \in DOMAIN s}

\* Python's ==
RECURSIVE PyEq(_, _)
PyEq(x, y) ==
    IF IsError(x) \/ IsError(y) THEN FALSE
    ELSE IF IsNumeric(x) /\ IsNumeric(y) THEN Tenths(x) = Tenths(y)
    ELSE IF x.t # y.t THEN FALSE
    ELSE IF x.t = "str" THEN x.s = y.s
    ELSE IF x.t = "none" THEN TRUE
    ELSE IF x.t = "list" THEN
        /\ Len(x.items) = Len(y.items)
        /\ \A i \in DOMAIN x.items : PyEq(x.items[i], y.items[i])
    ELSE \* dict, ns: the same fields with equal values, in any order
        /\ SeqRange(x.names) = SeqRange(y.names)
        /\ \A i \in DOMAIN x.names : \A j \in DOMAIN y.names :
               x.names[i] = y.names[j] => PyEq(x.items[i], y.items[j])

\* ----------------------------------------------------- numerals as atoms

NumeralRange == 0 .. (MaxNum + 1)
FloatText(m) == ToString(m \div 10) \o "." \o ToString(m % 10)
FloatRange == 0 .. (10 * (MaxNum + 1))
IsIntNumeral(a) == \E i \in NumeralRange : ToString(i) = a
IntOfNumeral(a) == CHOOSE i \in NumeralRange : ToString(i) = a
IsFloatNumeral(a) == \E m \in FloatRange : FloatText(m) = a
FloatOfNumeral(a) == CHOOSE m \in FloatRange : FloatText(m) = a

\* Python's repr(value), the form str() gives the elements of a container
RECURSIVE PyRepr(_)
PyRepr(v) ==
    CASE v.t = "bool" -> Atom(IF v.n = 1 THEN "True" ELSE "False")
      [] v.t = "int" -> Atom(ToString(v.n))
      [] v.t = "float" -> Atom(FloatText(v.n))
      [] v.t = "str" -> SQuoted(v.s)
      [] v.t = "none" -> Atom("None")
      [] v.t = "list" -> ArrText([i \in DOMAIN v.items |-> PyRepr(v.items[i])])
      [] v.t = "dict" -> ReprText("dictrepr", v.names, [i \in DOMAIN v.items |-> PyRepr(v.items[i])])
      [] v.t = "ns" -> ReprText("nsrepr", v.names, [i \in DOMAIN v.items |-> PyRepr(v.items[i])])
      [] OTHER -> Atom("<exception>")

\* Python's str(value)
PyStrOf(v) == IF v.t = "str" THEN v.s ELSE PyRepr(v)

\* json.dumps(value, cls=JSONNamespaceEncoder)
RECURSIVE JsonDumps(_)
JsonDumps(v) ==
    CASE v.t = "bool" -> Atom(IF v.n = 1 THEN "true" ELSE "false")
      [] v.t = "int" -> Atom(ToString(v.n))
      [] v.t = "float" -> Atom(FloatText(v.n))
      [] v.t = "str" -> Quoted(v.s)
      [] v.t = "none" -> Atom("null")
      [] v.t = "list" -> ArrText([i \in DOMAIN v.items |-> JsonDumps(v.items[i])])
      [] v.t \in {"dict", "ns"} -> ObjText(v.names, [i \in DOMAIN v.items |-> JsonDumps(v.items[i])])
      [] OTHER -> Atom("<exception>")

utils_value2json(value) == JsonDumps(value)

\* json.loads(text): the value, or JSONDecodeError
RECURSIVE JsonLoads(_)
JsonLoads(txt) ==
    CASE txt.k = "atom" ->
            IF txt.a = "true" THEN PyBool(TRUE)
            ELSE IF txt.a = "false" THEN PyBool(FALSE)
            ELSE IF txt.a = "null" THEN PyNone
            ELSE IF IsIntNumeral(txt.a) THEN PyInt(IntOfNumeral(txt.a))
            ELSE IF IsFloatNumeral(txt.a) THEN PyFloat(FloatOfNumeral(txt.a))
            ELSE PyRaise("JSONDecodeError")
      [] txt.k = "quoted" -> PyStr(txt.items[1])
      [] txt.k \in {"arr", "obj"} ->
            LET vs == [i \in DOMAIN txt.items |-> JsonLoads(txt.items[i])]
            IN  IF \E i \in DOMAIN vs : IsError(vs[i]) THEN PyRaise("JSONDecodeError")
                ELSE IF txt.k = "arr" THEN PyList(vs)
                ELSE PyDict(txt.names, vs)
      [] OTHER -> PyRaise("JSONDecodeError")

\* ---------------------------------------------------- property definitions

\* One entry of the catalog's "properties" list.  An absent field is "" (rw,
\* jsonType, compoundProperty), FALSE (hasValueMap) or "absent" (homeAssistant).
\* valueMap is the ordered raw-key -> label mapping; valueRef is refIdx for a
\* child of an array and refName for a child of an object.
PropDef(key, jsonType, rw, valueMap) ==
    [key |-> key, jsonType |-> jsonType, rw |-> rw,
     hasValueMap |-> valueMap # <<>>, valueMap |-> valueMap,
     childProps |-> <<>>, refIdx |-> 0, refName |-> "",
     compoundProperty |-> "",
     homeAssistant |-> "absent", haComponent |-> ""]

MapEntry(raw, label) == [raw |-> raw, label |-> label]

\* list(pd["valueMap"].keys()) and list(pd["valueMap"].values())
ValueMapKeys(pd) == [i \in DOMAIN pd.valueMap |-> Atom(pd.valueMap[i].raw)]
ValueMapValues(pd) == [i \in DOMAIN pd.valueMap |-> PyStr(Atom(pd.valueMap[i].label))]

\* list.index(x): the first position whose element == x
ListIndex(vs, x) == CHOOSE i \in DOMAIN vs :
                        /\ PyEq(vs[i], x)
                        /\ \A j \in 1 .. (i - 1) : ~PyEq(vs[j], x)

\* ------------------------------------------------------------------- codec

\* line 482: str(value) in list(pd["valueMap"].keys())
\* a variant of the key test below: no key is ever found
NeverHit(pd, value) == FALSE

\* line 482: str(value) in list(pd["valueMap"].keys())
MapHit(pd, value) ==
    pd.hasValueMap /\ \E i \in DOMAIN pd.valueMap : ValueMapKeys(pd)[i] = PyStrOf(value)

mqtt_get_mapped_value(pd, value) ==
    IF MapHit(pd, value)
    THEN LET i == CHOOSE j \in DOMAIN pd.valueMap : ValueMapKeys(pd)[j] = PyStrOf(value)
         IN  ValueMapValues(pd)[i]
    ELSE value

\* what a for loop over value visits: the elements of a list, the keys of a dict
IsIterable(v) == v.t \in {"list", "dict"}
IterItems(v) == IF v.t = "list" THEN v.items
                ELSE [i \in DOMAIN v.names |-> PyStr(Atom(v.names[i]))]

mqtt_get_mapped_property(pd, value) ==
    IF pd.jsonType = "array"
    THEN IF IsIterable(value)
         THEN LET F(v) == mqtt_get_mapped_value(pd, v)
                  vs == IterItems(value)
              IN  PyList([i \in DOMAIN vs |-> F(vs[i])])
         ELSE PyRaise("TypeError")
    ELSE mqtt_get_mapped_value(pd, value)

\* line 503: mapped_value in pd["valueMap"].values()
RemapHit(pd, mapped_value) ==
    pd.hasValueMap /\ \E i \in DOMAIN pd.valueMap : PyEq(ValueMapValues(pd)[i], mapped_value)

mqtt_get_remapped_value(pd, mapped_value) ==
    IF RemapHit(pd, mapped_value)
    THEN JsonLoads(ValueMapKeys(pd)[ListIndex(ValueMapValues(pd), mapped_value)])
    ELSE mapped_value

mqtt_get_remapped_property(pd, mapped_value) ==
    IF pd.jsonType = "array"
    THEN IF IsIterable(mapped_value)
         THEN LET F(v) == mqtt_get_remapped_value(pd, v)
                  ms == IterItems(mapped_value)
                  vs == [i \in DOMAIN ms |-> F(ms[i])]
              IN  IF \E i \in DOMAIN vs : IsError(vs[i])
                  THEN PyRaise("JSONDecodeError")
                  ELSE PyList(vs)
         ELSE PyRaise("TypeError")
    ELSE mqtt_get_remapped_value(pd, mapped_value)

\* line 524: the types whose mapped value is serialized
EncodesAsJson(pd) == pd.jsonType \in {"array", "object", "boolean"}

mqtt_get_encoded_property(pd, value) ==
    LET mapped_value == mqtt_get_mapped_property(pd, value)
    IN  IF IsError(mapped_value) THEN mapped_value
        ELSE IF EncodesAsJson(pd) THEN PyStr(JsonDumps(mapped_value))
        ELSE mapped_value

\* line 534: the types whose wire value is parsed
DecodesAsJson(pd) == pd.jsonType \in {"array", "object"}

mqtt_get_decoded_property(pd, value) ==
    LET decoded_value == IF DecodesAsJson(pd)
                         THEN IF value.t = "str" THEN JsonLoads(value.s)
                              ELSE PyRaise("TypeError")
                         ELSE value
    IN  IF IsError(decoded_value) THEN decoded_value
        ELSE mqtt_get_remapped_property(pd, decoded_value)

\* ------------------------------------------------------------------ schema

LookupIn(d, key) == d[CHOOSE i \in DOMAIN d : d[i].key = key]
HasKey(d, key) == \E i \in DOMAIN d : d[i].key = key

\* a variant of the insertion below: the later definition replaces the earlier
AddReplacing(d, k, v) ==
    IF HasKey(d, k) THEN [i \in DOMAIN d |-> IF d[i].key = k THEN v ELSE d[i]]
    ELSE Append(d, v)

\* d is an insertion-ordered dict held as the sequence of its values
utils_add_to_dict_unique(d, k, v) == IF HasKey(d, k) THEN d ELSE Append(d, v)

\* lines 78-79: cp["compoundProperty"] = p["key"] writes into the child the
\* parent's childProps list holds
StampChildren(p) ==
    [p EXCEPT !.childProps =
        [i \in DOMAIN p.childProps |-> [p.childProps[i] EXCEPT !.compoundProperty = p.key]]]

RECURSIVE AddAllUnique(_, _)
AddAllUnique(d, ps) ==
    IF ps = <<>> THEN d
    ELSE AddAllUnique(utils_add_to_dict_unique(d, Head(ps).key, Head(ps)), Tail(ps))

RECURSIVE FlattenProperties(_, _)
\* the loop of lines 74-81 over the catalog's "properties" list
FlattenProperties(d, ps) ==
    IF ps = <<>> THEN d
    ELSE LET p == StampChildren(Head(ps))
             withP == utils_add_to_dict_unique(d, p.key, p)
         IN  FlattenProperties(AddAllUnique(withP, p.childProps), Tail(ps))

\* wpcfg["properties"] of wp_read_config
wp_read_config(properties) == FlattenProperties(<<>>, properties)

\* --------------------------------------------------------- topic templates

\* A template is a sequence of literal pieces and {placeholders}.
Lit(str) == [k |-> "lit", s |-> str]
Ph(name) == [k |-> "ph", s |-> name]

Placeholders(tpl) == {tpl[i].s : i \in {j \in DOMAIN tpl : tpl[j].k = "ph"}}

RECURSIVE Format(_, _)
\* str.format(**values) when every placeholder is a key of values
Format(tpl, values) ==
    IF tpl = <<>> THEN ""
    ELSE (IF Head(tpl).k = "ph" THEN values[Head(tpl).s] ELSE Head(tpl).s)
             \o Format(Tail(tpl), values)

\* process-wide configuration (main_setup_env defaults)
MQTT_TOPIC_BASE == "wattpilot"
MQTT_TOPIC_PROPERTY_BASE == <<Ph("baseTopic"), Lit("/properties/"), Ph("propName")>>
MQTT_TOPIC_PROPERTY_SET == <<Lit("~"), Lit("/set")>>
MQTT_TOPIC_PROPERTY_STATE == <<Lit("~"), Lit("/state")>>

RECURSIVE ExpandEveryTilde(_)
\* a variant of the expansion below: every '~' of the template is replaced
ExpandEveryTilde(tpl) ==
    IF tpl = <<>> THEN <<>>
    ELSE (IF Head(tpl) = Lit("~") THEN MQTT_TOPIC_PROPERTY_BASE ELSE <<Head(tpl)>>)
             \o ExpandEveryTilde(Tail(tpl))

\* re.sub(r'^~', MQTT_TOPIC_PROPERTY_BASE, s)
ExpandTilde(tpl) ==
    IF tpl # <<>> /\ Head(tpl) = Lit("~") THEN MQTT_TOPIC_PROPERTY_BASE \o Tail(tpl) ELSE tpl

\* [ok, topic]: ok is FALSE when format raises KeyError
mqtt_subst_topic(tpl, values, expand) ==
    LET expanded == IF expand THEN ExpandTilde(tpl) ELSE tpl
        all_values == values @@ [baseTopic |-> MQTT_TOPIC_BASE]
    IN  IF Placeholders(expanded) \subseteq DOMAIN all_values
        THEN [ok |-> TRUE, topic |-> Format(expanded, all_values)]
        ELSE [ok |-> FALSE, topic |-> ""]


\* ------------------------------------------------- publishing to the bus

\* wp.serial of the device session
Serial == "S1"

NoRaise == ""
Pub(key, topic, payload, retain) ==
    [key |-> key, topic |-> topic, payload |-> payload, retain |-> retain]
Outcome(pubs, raised) == [pubs |-> pubs, raised |-> raised]

\* line 545: not (force_publish or MQTT_PROPERTIES == [''] or prop_name in MQTT_PROPERTIES)
SkipsPublishing(prop_name, force_publish, mqtt_properties) ==
    ~(force_publish \/ mqtt_properties = <<"">> \/ prop_name \in SeqRange(mqtt_properties))

\* lines 562-569: the child's value, [found, raised, v]
\*   array:  value[int(p["valueRef"])], IndexError past the end of the list
\*   object: value.__dict__[p["valueRef"]] if the field is there, else continue
ArrayRefResolves(value, p) == p.refIdx < Len(value.items)

ExtractChild(pd, value, p) ==
    IF pd.jsonType = "array" THEN
        IF value.t # "list" THEN [found |-> FALSE, raised |-> "TypeError", v |-> PyNone]
        ELSE IF ArrayRefResolves(value, p)
        THEN [found |-> TRUE, raised |-> NoRaise, v |-> value.items[p.refIdx + 1]]
        ELSE [found |-> FALSE, raised |-> "IndexError", v |-> PyNone]
    ELSE IF pd.jsonType = "object" THEN
        IF value.t # "ns" THEN [found |-> FALSE, raised |-> "AttributeError", v |-> PyNone]
        ELSE IF \E i \in DOMAIN value.names : value.names[i] = p.refName
        THEN [found |-> TRUE, raised |-> NoRaise,
              v |-> value.items[CHOOSE i \in DOMAIN value.names : value.names[i] = p.refName]]
        ELSE [found |-> FALSE, raised |-> NoRaise, v |-> PyNone]
    ELSE [found |-> FALSE, raised |-> NoRaise, v |-> PyNone]

RECURSIVE mqtt_publish_property(_, _, _, _, _)
RECURSIVE PublishChildren(_, _, _, _, _)

\* the loop of lines 560-572 over the children not yet visited
PublishChildren(pd, value, children, decompose, mqtt_properties) ==
    IF children = <<>> THEN Outcome(<<>>, NoRaise)
    ELSE LET p == Head(children)
             x == ExtractChild(pd, value, p)
         IN  IF x.raised # NoRaise THEN Outcome(<<>>, x.raised)
             ELSE IF ~x.found
             THEN PublishChildren(pd, value, Tail(children), decompose, mqtt_properties)
             ELSE LET one == mqtt_publish_property(p, x.v, TRUE, decompose, mqtt_properties)
                  IN  IF one.raised # NoRaise THEN one
                      ELSE LET rest == PublishChildren(pd, value, Tail(children),
                                                       decompose, mqtt_properties)
                           IN  Outcome(one.pubs \o rest.pubs, rest.raised)

\* the publish calls made, in order, and the exception that ended them (if any)
mqtt_publish_property(pd, value, force_publish, decompose, mqtt_properties) ==
    IF SkipsPublishing(pd.key, force_publish, mqtt_properties) THEN Outcome(<<>>, NoRaise)
    ELSE LET property_topic == mqtt_subst_topic(MQTT_TOPIC_PROPERTY_STATE,
                                   [baseTopic |-> MQTT_TOPIC_BASE, serialNumber |-> Serial,
                                    propName |-> pd.key], TRUE)
             encoded_value == mqtt_get_encoded_property(pd, value)
         IN  IF ~property_topic.ok THEN Outcome(<<>>, "KeyError")
             ELSE IF IsError(encoded_value) THEN Outcome(<<>>, encoded_value.s.a)
             ELSE LET own == <<Pub(pd.key, property_topic.topic, encoded_value, FALSE)>>
                  IN  IF decompose /\ pd.childProps # <<>>
                      THEN LET sub == PublishChildren(pd, value, pd.childProps,
                                                      decompose, mqtt_properties)
                           IN  Outcome(own \o sub.pubs, sub.raised)
                      ELSE Outcome(own, NoRaise)

\* ---------------------------------------------- Home Assistant discovery

HA_TOPIC_CONFIG_DEFAULT ==
    <<Lit("homeassistant/"), Ph("component"), Lit("/"), Ph("uniqueId"), Lit("/config")>>

IsWritable(prop_info) == prop_info.rw = "R/W"
\* line 708: "rw" in prop_info and prop_info["rw"] == "R"
IsDeclaredReadOnly(prop_info) == prop_info.rw = "R"

ha_get_component_for_prop(prop_info) ==
    IF IsWritable(prop_info) THEN
        IF prop_info.hasValueMap THEN "select"
        ELSE IF prop_info.jsonType = "boolean" THEN "switch"
        ELSE IF prop_info.jsonType = "float" THEN "number"
        ELSE IF prop_info.jsonType = "integer" THEN "number"
        ELSE "sensor"
    ELSE IF IsDeclaredReadOnly(prop_info) THEN
        IF prop_info.jsonType = "boolean" THEN "binary_sensor" ELSE "sensor"
    ELSE "sensor"

\* lines 746-750: homeAssistant.component, when given, overrides the derivation
ComponentOf(pd) ==
    IF pd.homeAssistant = "dict" /\ pd.haComponent # ""
    THEN pd.haComponent
    ELSE ha_get_component_for_prop(pd)

\* the entries (name, value) of the default config
ha_get_default_config_for_prop(prop_info) ==
    (IF prop_info.rw = "R/W" /\ prop_info.jsonType \in {"float", "integer"}
     THEN <<[name |-> "mode", value |-> PyStr(Atom("box"))]>> ELSE <<>>)
    \o (IF prop_info.homeAssistant = "absent"
        THEN <<[name |-> "enabled_by_default", value |-> PyBool(FALSE)]>> ELSE <<>>)

DictOfEntries(es) == PyDict([i \in DOMAIN es |-> es[i].name], [i \in DOMAIN es |-> es[i].value])

TopicSubstMap(pd) ==
    [component |-> ComponentOf(pd), propName |-> pd.key, serialNumber |-> Serial,
     uniqueId |-> "wattpilot_" \o Serial \o "_" \o pd.key]

\* lines 766-784: the discovery document, or the KeyError of a substitution
DiscoveryConfig(pd) ==
    LET m == TopicSubstMap(pd)
        base_topic == mqtt_subst_topic(MQTT_TOPIC_PROPERTY_BASE, m, FALSE)
        state_topic == mqtt_subst_topic(MQTT_TOPIC_PROPERTY_STATE, m, FALSE)
        command_topic == mqtt_subst_topic(MQTT_TOPIC_PROPERTY_SET, m, FALSE)
        entries ==
            ha_get_default_config_for_prop(pd)
            \o << [name |-> "~", value |-> PyStr(Atom(base_topic.topic))],
                  [name |-> "name", value |-> PyStr(Atom(pd.key))],
                  [name |-> "object_id", value |-> PyStr(Atom("wattpilot_" \o pd.key))],
                  [name |-> "unique_id", value |-> PyStr(Atom(m.uniqueId))],
                  [name |-> "state_topic", value |-> PyStr(Atom(state_topic.topic))] >>
            \o (IF pd.hasValueMap
                THEN <<[name |-> "options", value |-> PyList(ValueMapValues(pd))]>> ELSE <<>>)
            \o (IF pd.rw = "R/W"
                THEN <<[name |-> "command_topic", value |-> PyStr(Atom(command_topic.topic))]>>
                ELSE <<>>)
    IN  IF ~base_topic.ok \/ ~state_topic.ok \/ (pd.rw = "R/W" /\ ~command_topic.ok)
        THEN PyRaise("KeyError")
        ELSE DictOfEntries(entries)

\* a variant of the payload choice below: the document whatever the flag
DocumentRegardless(config, disable_discovery) == PyStr(utils_value2json(config))

\* line 786-789: '' withdraws the document
DiscoveryPayload(config, disable_discovery) ==
    IF disable_discovery THEN PyStr(Atom("")) ELSE PyStr(utils_value2json(config))

\* a variant of the loop over the children below: no child is visited
SkipChildren(children, disable_discovery, decomp, topic_config) == Outcome(<<>>, NoRaise)

RECURSIVE ha_discover_property(_, _, _, _)
RECURSIVE DiscoverChildren(_, _, _, _)

\* the loop of lines 794-795 over the children not yet visited
DiscoverChildren(children, disable_discovery, decomp, topic_config) ==
    IF children = <<>> THEN Outcome(<<>>, NoRaise)
    ELSE LET one == ha_discover_property(Head(children), disable_discovery, decomp, topic_config)
         IN  IF one.raised # NoRaise THEN one
             ELSE LET rest == DiscoverChildren(Tail(children), disable_discovery,
                                               decomp, topic_config)
                  IN  Outcome(one.pubs \o rest.pubs, rest.raised)

\* the publish calls made, in order, and the exception that ended them (if any)
ha_discover_property(pd, disable_discovery, decomp, topic_config) ==
    LET config == DiscoveryConfig(pd)
        topic_cfg == mqtt_subst_topic(topic_config, TopicSubstMap(pd), TRUE)
    IN  IF IsError(config) \/ ~topic_cfg.ok THEN Outcome(<<>>, "KeyError")
        ELSE LET own == <<Pub(pd.key, topic_cfg.topic,
                              DiscoveryPayload(config, disable_discovery), TRUE)>>
             IN  IF decomp /\ pd.childProps # <<>>
                 THEN LET sub == DiscoverChildren(pd.childProps, disable_discovery,
                                                  decomp, topic_config)
                      IN  Outcome(own \o sub.pubs, sub.raised)
                 ELSE Outcome(own, NoRaise)

\* ------------------------------------------- inbound property-set messages

\* line 657: pd['rw'] == "R"
IsReadOnly(pd) == pd.rw = "R"

SetTopic(name) == mqtt_subst_topic(MQTT_TOPIC_PROPERTY_SET, [propName |-> name], TRUE).topic

\* lines 651-653: the propName the topic carries; a topic that does not match
\* the set template is left as it is
NameOfTopic(names, topic) ==
    IF \E n \in names : SetTopic(n) = topic
    THEN CHOOSE n \in names : SetTopic(n) = topic
    ELSE topic

\* mqtt_set_value: [warnings, raised, sent], sent the send_update calls made
mqtt_set_value(wp_propdef, names, topic, payload) ==
    LET name == NameOfTopic(names, topic)
        w1 == IF name = "" THEN <<"Unknown property">> ELSE <<>>
    IN  IF ~HasKey(wp_propdef, name)
        THEN [warnings |-> w1, raised |-> "KeyError", sent |-> <<>>]
        ELSE LET pd == LookupIn(wp_propdef, name)
             IN  IF pd.rw = ""
                 THEN [warnings |-> w1, raised |-> "KeyError", sent |-> <<>>]
                 ELSE LET w2 == IF IsReadOnly(pd)
                                THEN Append(w1, "not writable") ELSE w1
                          value == mqtt_get_decoded_property(pd, PyStr(payload))
                      IN  IF IsError(value)
                          THEN [warnings |-> w2, raised |-> value.s.a, sent |-> <<>>]
                          ELSE [warnings |-> w2, raised |-> NoRaise,
                                sent |-> <<[name |-> name, value |-> value]>>]


\* --------------------------------------------------------------- variables

VARIABLES
    \* the codec applied to one property definition and one value
    cPd, cValue, cWire, cOut, cPc,
    \* the bridge: the last call (set-value from the bus, or publish of one
    \* property to the bus) and what it did
    bCall, bWarnings, bRaised, bSent, bPubs, bPd,
    \* MQTT_DECOMPOSE_PROPERTIES and MQTT_PROPERTIES
    decompose, mqttProperties,
    \* the shell's watch registry (two lists) and the device session's two
    \* callback slots
    shell_watching_messages, shell_watching_properties,
    message_callback, property_callback,
    \* the shell thread: where it is in do_watch / do_unwatch, and the command
    \* (with what it printed, the register / unregister calls it made and the
    \* registry as it was when the command began)
    shPc, shCmd,
    \* the transport thread: where it is in a callback, the notification, and
    \* what became of the last notification
    cbPc, cbEvent, cbLast,
    \* the HA_TOPIC_CONFIG, HA_PROPERTIES and HA_ENABLED globals, and the global
    \* mqtt_client handle: "none", or a client that is connected or disconnected
    HA_TOPIC_CONFIG, HA_PROPERTIES, HA_ENABLED, mqtt_client,
    \* the shell thread in ha_setup / ha_stop: its position, the index of the
    \* next name of the batch, and the run (command, names the loop visited,
    \* exception that ended it, whether the batch is over, whether it returned)
    haPc, haIdx, haRun,
    \* the bus: the last payload published with retain to each config topic,
    \* the config topics that ever received a non-empty document, and the
    \* publish calls of the last step
    retained, everDoc, haPubs,
    \* startup: the packaged catalog as yaml.safe_load finds it, what
    \* wp_read_config returned, and where main is
    catalogSource, wpcfg, mainPc,
    \* the last device message given to mqtt_publish_message: the mqtt_client
    \* handle and the position of the shell thread at that time, what the
    \* callback did and how many publish calls it made
    msgOut,
    \* one call of mqtt_subst_topic: the template, the expand flag, the
    \* propName value, whether the call was made and what it returned
    subst

codecVars == <<cPd, cValue, cWire, cOut, cPc>>
bridgeVars == <<bCall, bWarnings, bRaised, bSent, bPubs, bPd>>
configVars == <<decompose, mqttProperties>>
registryVars == <<shell_watching_messages, shell_watching_properties,
                  message_callback, property_callback>>
shellVars == <<shPc, shCmd>>
transportVars == <<cbPc, cbEvent, cbLast>>
watchVars == <<registryVars, shellVars, transportVars>>
haConfigVars == <<HA_TOPIC_CONFIG, HA_PROPERTIES, HA_ENABLED, mqtt_client>>
haRunVars == <<haPc, haIdx, haRun>>
busVars == <<retained, everDoc, haPubs>>
haVars == <<haConfigVars, haRunVars, busVars>>
startVars == <<catalogSource, wpcfg, mainPc>>
vars == <<codecVars, bridgeVars, configVars, watchVars, haVars, startVars, msgOut, subst>>
notCodecVars == <<bridgeVars, configVars, watchVars, haVars, startVars, msgOut, subst>>
notBridgeVars == <<codecVars, configVars, watchVars, haVars, startVars, msgOut, subst>>
notWatchVars == <<codecVars, bridgeVars, configVars, haVars, startVars, msgOut, subst>>
notHaVars == <<codecVars, bridgeVars, shell_watching_messages, shell_watching_properties,
               property_callback, shellVars, transportVars, startVars, msgOut, subst>>
notStartVars == <<codecVars, bridgeVars, configVars, watchVars, haVars, msgOut, subst>>
notMessageVars == <<codecVars, bridgeVars, configVars, watchVars, haVars, startVars, subst>>
notSubstVars == <<codecVars, bridgeVars, configVars, watchVars, haVars, startVars, msgOut>>

NoPd == PropDef("", "", "", <<>>)
NoCall == [op |-> "none", key |-> "", arg |-> PyNone]

CodecOff == cPd = NoPd /\ cValue = PyNone /\ cWire = PyNone
                /\ cOut = PyNone /\ cPc = "off"
BridgeOff == bCall = NoCall /\ bWarnings = <<>> /\ bRaised = NoRaise
                /\ bSent = <<>> /\ bPubs = <<>> /\ bPd = NoPd
ConfigOff == decompose = TRUE /\ mqttProperties = <<"">>

Registry == [msgs |-> shell_watching_messages, props |-> shell_watching_properties,
             mcb |-> message_callback, pcb |-> property_callback]
NoCmd == [cmd |-> "none", kind |-> "", name |-> "", out |-> "", regs |-> 0, unregs |-> 0,
          pre |-> [msgs |-> <<>>, props |-> <<>>, mcb |-> "none", pcb |-> "none"]]
NoEvent == [kind |-> "", name |-> "", result |-> ""]

\* lines 954-956: the registry as main leaves it
WatchOff ==
    /\ shell_watching_messages = <<>> /\ shell_watching_properties = <<>>
    /\ message_callback = "none" /\ property_callback = "none"
    /\ shPc = "idle" /\ shCmd = NoCmd
    /\ cbPc = "idle" /\ cbEvent = NoEvent /\ cbLast = NoEvent

\* ------------------------------------------------------------ the catalog

IntMap == <<MapEntry("0", "Off"), MapEntry("1", "On")>>
ArrayChild(key, jsonType, idx) == [PropDef(key, jsonType, "", <<>>) EXCEPT !.refIdx = idx]
ObjectChild(key, jsonType, name) == [PropDef(key, jsonType, "", <<>>) EXCEPT !.refName = name]
WithChildren(pd, children) == [pd EXCEPT !.childProps = children]

\* homeAssistant of a definition: absent, null, a block without component, a
\* block with component
WithHA(pd, ha, component) == [pd EXCEPT !.homeAssistant = ha, !.haComponent = component]

\* A catalog: writable and read-only scalars, a definition without rw, an array
\* whose children take elements 0 and 2, an object with two named children.
\* amp, car, nrg and nrg's child nrg2 carry a homeAssistant entry.
BridgeCatalog ==
    << WithHA(PropDef("amp", "integer", "R/W", <<>>), "dict", ""),
       PropDef("lmo", "integer", "R/W", IntMap),
       WithHA(PropDef("car", "integer", "R", IntMap), "none", ""),
       PropDef("fna", "string", "R", <<>>),
       PropDef("cae", "boolean", "", <<>>),
       WithHA(WithChildren(PropDef("nrg", "array", "R", <<>>),
                           <<ArrayChild("nrg0", "integer", 0),
                             WithHA(ArrayChild("nrg2", "integer", 2), "dict", "")>>),
              "dict", ""),
       WithChildren(PropDef("cci", "object", "R", <<>>),
                    <<ObjectChild("ccix", "integer", "x"), ObjectChild("cciy", "integer", "y")>>) >>

wp_propdef == wp_read_config(BridgeCatalog)

\* the packaged catalog parses, wp_read_config has returned its flattened
\* properties and main is in the command loop
Parsed(properties) == [parses |-> TRUE, properties |-> properties]
Unparsable == [parses |-> FALSE, properties |-> <<>>]
Loaded(properties) == [hasProperties |-> TRUE, properties |-> properties]
NoTopic == [ok |-> FALSE, topic |-> ""]
NoSubst == [tpl |-> <<>>, expand |-> FALSE, propName |-> "", done |-> FALSE, out |-> NoTopic]
SubstOff == subst = NoSubst

StartOff ==
    /\ catalogSource = Parsed(BridgeCatalog)
    /\ wpcfg = Loaded(wp_propdef)
    /\ mainPc = "loop"

NoRun == [cmd |-> "none", afterSetup |-> FALSE, attempted |-> <<>>, raised |-> NoRaise,
          ended |-> FALSE, done |-> FALSE]
NoRetained == [t \in {} |-> PyNone]
NoMsg == [client |-> "none", during |-> "idle", result |-> "", attempts |-> 0]

\* lines 892-894 with no environment set, line 956, and a bus with nothing retained
HaOff ==
    /\ HA_TOPIC_CONFIG = HA_TOPIC_CONFIG_DEFAULT /\ HA_PROPERTIES = <<"">>
    /\ HA_ENABLED = "false" /\ mqtt_client = "none"
    /\ haPc = "idle" /\ haIdx = 1 /\ haRun = NoRun
    /\ retained = NoRetained /\ everDoc = {} /\ haPubs = <<>>
    /\ msgOut = NoMsg

\* ------------------------------------------------- the codec on its inputs


\* Property definitions of every jsonType, with and without a valueMap.
CodecDefs ==
    { PropDef("b", "boolean", "R/W", <<>>),
      PropDef("bm", "boolean", "R/W", <<MapEntry("True", "yes"), MapEntry("False", "no")>>),
      PropDef("i", "integer", "R/W", <<>>),
      PropDef("im", "integer", "R/W", IntMap),
      PropDef("idup", "integer", "R/W", <<MapEntry("0", "Off"), MapEntry("1", "Off")>>),
      PropDef("f", "float", "R/W", <<>>),
      PropDef("fm", "float", "R/W", <<MapEntry("0.5", "Half"), MapEntry("1.0", "Full")>>),
      PropDef("s", "string", "R/W", <<>>),
      PropDef("sm", "string", "R/W", <<MapEntry("a", "Alpha"), MapEntry("b", "Beta")>>),
      PropDef("a", "array", "R/W", <<>>),
      PropDef("am", "array", "R/W", IntMap),
      PropDef("o", "object", "R/W", <<>>) }

RECURSIVE SeqsUpTo(_, _)
\* the sequences over S of length at most n
SeqsUpTo(S, n) ==
    IF n = 0 THEN {<<>>}
    ELSE LET shorter == SeqsUpTo(S, n - 1)
         IN  shorter \cup {Append(q, x) : q \in shorter, x \in S}

IntValues == {PyInt(i) : i \in 0 .. MaxNum}
FloatValues == {PyFloat(5 * i) : i \in 0 .. MaxNum}
BoolValues == {PyBool(TRUE), PyBool(FALSE)}
StrValues == {PyStr(Atom(w)) : w \in {"a", "b", "On"}}
ListValues == {PyList(q) : q \in SeqsUpTo(IntValues, MaxLen)}
                 \cup {PyList(<<x>>) : x \in StrValues}
ObjectValues == {PyNamespace(<<"x">>, <<PyInt(1)>>), PyDict(<<"x">>, <<PyInt(1)>>)}
RawValues == IntValues \cup FloatValues \cup BoolValues \cup StrValues
                 \cup ListValues \cup ObjectValues

\* value has the Python type the device session holds for pd's jsonType
TypeMatches(pd, value) ==
    CASE pd.jsonType = "boolean" -> value.t = "bool"
      [] pd.jsonType = "integer" -> value.t = "int"
      [] pd.jsonType = "float" -> value.t = "float"
      [] pd.jsonType = "string" -> value.t = "str"
      [] pd.jsonType = "array" -> value.t = "list"
      [] pd.jsonType = "object" -> value.t \in {"ns", "dict"}
      [] OTHER -> FALSE

\* the valid domain of pd: values of its type whose scalars are valueMap keys
InDomain(pd, value) ==
    /\ TypeMatches(pd, value)
    /\ pd.hasValueMap =>
          IF pd.jsonType = "array"
          THEN \A i \in DOMAIN value.items : MapHit(pd, value.items[i])
          ELSE MapHit(pd, value)

CodecInit ==
    /\ BridgeOff /\ ConfigOff /\ WatchOff /\ HaOff /\ StartOff /\ SubstOff
    /\ cPd \in CodecDefs
    /\ cValue \in RawValues
    /\ cWire = PyNone
    /\ cOut = PyNone
    /\ cPc = "raw"

\* encoded = mqtt_get_encoded_property(pd, value)
Encode ==
    /\ cPc = "raw"
    /\ cWire' = mqtt_get_encoded_property(cPd, cValue)
    /\ cPc' = "encoded"
    /\ UNCHANGED <<cPd, cValue, cOut, notCodecVars>>

\* mqtt_get_decoded_property(pd, encoded)
Decode ==
    /\ cPc = "encoded"
    /\ ~IsError(cWire)
    /\ cOut' = mqtt_get_decoded_property(cPd, cWire)
    /\ cPc' = "decoded"
    /\ UNCHANGED <<cPd, cValue, cWire, notCodecVars>>

\* mqtt_get_mapped_value(pd, value)
MapValue ==
    /\ cPc = "raw"
    /\ cOut' = mqtt_get_mapped_value(cPd, cValue)
    /\ cPc' = "mapped"
    /\ UNCHANGED <<cPd, cValue, cWire, notCodecVars>>

\* texts the bus delivers: numerals, labels, a word, an array of labels
WireTexts == {Atom("1"), Atom("On"), Atom("Alpha"), Atom("hello"),
              ArrText(<<Quoted(Atom("On")), Quoted(Atom("Off"))>>)}

\* mqtt_get_decoded_property(pd, wire) on a text that did not come from encode
DecodeWire ==
    /\ cPc = "raw"
    /\ \E wire \in WireTexts :
           /\ cWire' = PyStr(wire)
           /\ cOut' = mqtt_get_decoded_property(cPd, PyStr(wire))
    /\ cPc' = "parsed"
    /\ UNCHANGED <<cPd, cValue, notCodecVars>>

CodecNext == Encode \/ Decode \/ MapValue \/ DecodeWire

SpecCodec == CodecInit /\ [][CodecNext]_vars

\* C2: decode(pd, encode(pd, v)) == v for every pd and every v of pd's valid
\* domain, arrays with repeated elements and the empty array included.
C2_RoundTrip ==
    (cPc = "decoded" /\ InDomain(cPd, cValue)) => PyEq(cOut, cValue)

\* ------------------------------------------------------------- the bridge

\* a child of an array (valueRef idx) or of an object (valueRef name)
SchemaKeys == {wp_propdef[i].key : i \in DOMAIN wp_propdef}

\* propNames a set topic can carry: every schema key and one unknown name
TopicNames == SchemaKeys \cup {"zzz"}
\* payloads of a set message
Payloads == {Atom("1"), Atom("On"), Atom("true"), Atom("hello"),
             ArrText(<<Atom("1"), Atom("0")>>)}

\* raw values the device session holds for a compound property
Bits == {PyInt(0), PyInt(1)}
ArrayRaws == {PyList(q) : q \in SeqsUpTo(Bits, MaxLen + 1)}
ObjectRaws == {PyNamespace(<<"x">>, <<PyInt(1)>>),
               PyNamespace(<<"y", "x">>, <<PyInt(0), PyInt(1)>>),
               PyNamespace(<<"z">>, <<PyInt(1)>>)}
RawsFor(pd) == IF pd.jsonType = "array" THEN ArrayRaws
               ELSE IF pd.jsonType = "object" THEN ObjectRaws
               ELSE {v \in RawValues : TypeMatches(pd, v)}

BridgeInit ==
    /\ CodecOff /\ BridgeOff /\ WatchOff /\ HaOff /\ StartOff /\ SubstOff
    /\ decompose \in BOOLEAN
    /\ mqttProperties \in {<<"">>, <<"amp", "nrg">>}

\* the bus delivers a message on the set topic of name: mqtt_set_value
MqttSetValue ==
    \E name \in TopicNames, payload \in Payloads :
        LET r == mqtt_set_value(wp_propdef, TopicNames, SetTopic(name), payload)
        IN  /\ bCall' = [op |-> "set", key |-> name, arg |-> PyStr(payload)]
            /\ bWarnings' = r.warnings
            /\ bRaised' = r.raised
            /\ bSent' = r.sent
            /\ bPubs' = <<>>
            /\ bPd' = NoPd
            /\ UNCHANGED notBridgeVars

\* the value of a catalog property goes to the bus: mqtt_publish_property
MqttPublishProperty ==
    \E i \in DOMAIN BridgeCatalog :
        LET pd == LookupIn(wp_propdef, BridgeCatalog[i].key) IN
        \E value \in RawsFor(pd) :
            LET r == mqtt_publish_property(pd, value, FALSE, decompose, mqttProperties)
            IN  /\ bCall' = [op |-> "publish", key |-> pd.key, arg |-> value]
                /\ bWarnings' = <<>>
                /\ bRaised' = r.raised
                /\ bSent' = <<>>
                /\ bPubs' = r.pubs
                /\ bPd' = pd
                /\ UNCHANGED notBridgeVars

\* every combination of rw, jsonType, valueMap and homeAssistant
ComponentDefs ==
    { WithHA(PropDef("p", jt, rw, vm), ha[1], ha[2]) :
        jt \in {"", "boolean", "integer", "float", "string", "array", "object"},
        rw \in {"", "R", "R/W"},
        vm \in {<<>>, IntMap},
        ha \in {<<"absent", "">>, <<"none", "">>, <<"dict", "">>, <<"dict", "light">>} }

\* the discovery document of one definition is published or withdrawn:
\* ha_discover_property
HaDiscoverProperty ==
    \E pd \in ComponentDefs, disable_discovery \in BOOLEAN :
        LET r == ha_discover_property(pd, disable_discovery, decompose, HA_TOPIC_CONFIG_DEFAULT)
        IN  /\ bCall' = [op |-> "discover", key |-> pd.key, arg |-> PyBool(disable_discovery)]
            /\ bWarnings' = <<>>
            /\ bRaised' = r.raised
            /\ bSent' = <<>>
            /\ bPubs' = r.pubs
            /\ bPd' = pd
            /\ UNCHANGED notBridgeVars

BridgeNext == MqttSetValue \/ MqttPublishProperty \/ HaDiscoverProperty

SpecBridge == BridgeInit /\ [][BridgeNext]_vars

\* C1: a set message whose propName is not in the schema, or names a property
\* that is read-only (rw = R, or no rw), only logs a warning: send_update is
\* not called.
C1_ReadOnlyNotApplied ==
    \A i \in DOMAIN bSent :
        /\ HasKey(wp_propdef, bSent[i].name)
        /\ LookupIn(wp_propdef, bSent[i].name).rw = "R/W"

\* the pairs (child, value) the last publish call sent for the children of pd
ChildPairs == [i \in 1 .. (Len(bPubs) - 1) |->
                  [key |-> bPubs[i + 1].key, payload |-> bPubs[i + 1].payload]]

RECURSIVE ResolvedPairs(_, _)
\* one pair per child whose valueRef is an index of value, in declaration order
ResolvedPairs(children, value) ==
    IF children = <<>> THEN <<>>
    ELSE (IF Head(children).refIdx < Len(value.items)
          THEN <<[key |-> Head(children).key,
                  payload |-> value.items[Head(children).refIdx + 1]]>>
          ELSE <<>>) \o ResolvedPairs(Tail(children), value)

\* C3: decomposing a compound array publishes, in declaration order, exactly
\* the children whose valueRef resolves, each with raw[valueRef]; a child whose
\* valueRef does not resolve is skipped without an error.
C3_DecomposeSkipsUnresolved ==
    (bCall.op = "publish" /\ bCall.key = "nrg" /\ decompose
        /\ ~SkipsPublishing("nrg", FALSE, mqttProperties)) =>
            /\ bRaised = NoRaise
            /\ ChildPairs = ResolvedPairs(LookupIn(wp_propdef, "nrg").childProps, bCall.arg)

\* the component the claim derives for a definition
ClaimedComponent(pd) ==
    IF pd.homeAssistant = "dict" /\ pd.haComponent # "" THEN pd.haComponent
    ELSE IF pd.rw = "R/W" /\ pd.hasValueMap THEN "select"
    ELSE IF pd.rw = "R/W" /\ pd.jsonType = "boolean" THEN "switch"
    ELSE IF pd.rw = "R/W" /\ pd.jsonType \in {"integer", "float"} THEN "number"
    ELSE IF pd.rw \in {"R", ""} /\ pd.jsonType = "boolean" THEN "binary_sensor"
    ELSE "sensor"

ConfigTopicFor(pd, component) ==
    Format(HA_TOPIC_CONFIG_DEFAULT, [TopicSubstMap(pd) EXCEPT !.component = component])

\* C9: the discovery topic of every definition carries the component of the
\* derivation order: explicit component, select, switch, number, binary_sensor
\* for a read-only boolean (no rw field counts as read-only), else sensor.
C9_ComponentDerivation ==
    bCall.op = "discover" =>
        /\ Len(bPubs) = 1
        /\ bPubs[1].topic = ConfigTopicFor(bPd, ClaimedComponent(bPd))

\* ------------------------------------------------------ the watch registry

\* wpcfg["messages"] keys and wp.allProps keys: what watch accepts
MessageKeys == {"fullStatus", "deltaStatus"}
AllProps == {"amp", "fwv"}
\* the names an operator types: the known ones and an unknown one
TypedMessages == MessageKeys \cup {"bogus"}
TypedProps == AllProps \cup {"zzz"}
TypedNames(kind) == IF kind = "message" THEN TypedMessages
                    ELSE IF kind = "property" THEN TypedProps
                    ELSE {"amp"}
WatchKinds == {"message", "property", "other"}

Watching(kind) == IF kind = "message" THEN shell_watching_messages
                  ELSE shell_watching_properties
CallbackSlot(kind) == IF kind = "message" THEN message_callback ELSE property_callback

\* variants of the list tests below: deregister on every unwatch, append on
\* every watch, forward every notification
UnregisterOnEveryUnwatch(watching) == TRUE
AppendOnEveryWatch(name, watching) == TRUE
ForwardEveryNotification(name, watching) == TRUE

\* lines 379, 388: args[1] not in wpcfg['messages'] / not in wp.allProps
IsUnknownName(kind, name) ==
    IF kind = "message" THEN name \notin MessageKeys ELSE name \notin AllProps
\* lines 384, 393: len(watching) == 0
NeedsRegister(watching) == Len(watching) = 0
\* lines 386, 395: name not in watching
NotYetWatched(name, watching) == name \notin SeqRange(watching)
\* lines 325, 331: args[1] not in watching
NotWatched(name, watching) == name \notin SeqRange(watching)
\* lines 329, 335: len(watching) == 0
NeedsUnregister(watching) == Len(watching) = 0
\* lines 444, 451: name in watching
IsWatched(name, watching) == name \in SeqRange(watching)

\* list.remove(x): drops the first element equal to x
ListRemove(watching, name) ==
    LET i == CHOOSE j \in DOMAIN watching :
                 watching[j] = name /\ \A h \in 1 .. (j - 1) : watching[h] # name
    IN  SubSeq(watching, 1, i - 1) \o SubSeq(watching, i + 1, Len(watching))

\* Wattpilot.register_*_callback / unregister_*_callback: the session holds
\* one callback of each kind
register_callback(slot, fn) == fn
unregister_callback(slot) == "none"

SetWatching(kind, watching) ==
    IF kind = "message"
    THEN shell_watching_messages' = watching /\ UNCHANGED shell_watching_properties
    ELSE shell_watching_properties' = watching /\ UNCHANGED shell_watching_messages
SetCallback(kind, fn) ==
    IF kind = "message"
    THEN message_callback' = fn /\ UNCHANGED property_callback
    ELSE property_callback' = fn /\ UNCHANGED message_callback

NewCmd(cmd, kind, name, out) ==
    [cmd |-> cmd, kind |-> kind, name |-> name, out |-> out, regs |-> 0, unregs |-> 0,
     pre |-> Registry]

\* do_watch, lines 377-398: the argument checks
WatchBegin ==
    \E kind \in WatchKinds : \E name \in TypedNames(kind) :
        /\ shPc = "idle"
        /\ IF kind = "other"
           THEN shCmd' = NewCmd("watch", kind, name, "ERROR: Unknown watch type") /\ shPc' = "idle"
           ELSE IF IsUnknownName(kind, name)
           THEN shCmd' = NewCmd("watch", kind, name, "ERROR: Unknown name") /\ shPc' = "idle"
           ELSE shCmd' = NewCmd("watch", kind, name, "") /\ shPc' = "w_len"
        /\ UNCHANGED <<notWatchVars, registryVars, transportVars>>

\* lines 384, 393
WatchLen ==
    /\ shPc = "w_len"
    /\ shPc' = IF NeedsRegister(Watching(shCmd.kind)) THEN "w_reg" ELSE "w_in"
    /\ UNCHANGED <<notWatchVars, registryVars, shCmd, transportVars>>

\* lines 385, 394
WatchRegister ==
    /\ shPc = "w_reg"
    /\ SetCallback(shCmd.kind, register_callback(CallbackSlot(shCmd.kind), "shell"))
    /\ shCmd' = [shCmd EXCEPT !.regs = @ + 1]
    /\ shPc' = "w_in"
    /\ UNCHANGED <<notWatchVars, shell_watching_messages, shell_watching_properties, transportVars>>

\* lines 386, 395
WatchIn ==
    /\ shPc = "w_in"
    /\ shPc' = IF NotYetWatched(shCmd.name, Watching(shCmd.kind)) THEN "w_app" ELSE "idle"
    /\ UNCHANGED <<notWatchVars, registryVars, shCmd, transportVars>>

\* lines 387, 396
WatchAppend ==
    /\ shPc = "w_app"
    /\ SetWatching(shCmd.kind, Append(Watching(shCmd.kind), shCmd.name))
    /\ shPc' = "idle"
    /\ UNCHANGED <<notWatchVars, message_callback, property_callback, shCmd, transportVars>>

\* do_unwatch, lines 323-338: the argument checks
UnwatchBegin ==
    \E kind \in WatchKinds : \E name \in TypedNames(kind) :
        /\ shPc = "idle"
        /\ IF kind = "other"
           THEN shCmd' = NewCmd("unwatch", kind, name, "ERROR: Unknown watch type")
                /\ shPc' = "idle"
           ELSE IF NotWatched(name, Watching(kind))
           THEN shCmd' = NewCmd("unwatch", kind, name, "ERROR: not watched") /\ shPc' = "idle"
           ELSE shCmd' = NewCmd("unwatch", kind, name, "") /\ shPc' = "u_rem"
        /\ UNCHANGED <<notWatchVars, registryVars, transportVars>>

\* lines 328, 334
UnwatchRemove ==
    /\ shPc = "u_rem"
    /\ SetWatching(shCmd.kind, ListRemove(Watching(shCmd.kind), shCmd.name))
    /\ shPc' = "u_len"
    /\ UNCHANGED <<notWatchVars, message_callback, property_callback, shCmd, transportVars>>

\* lines 329, 335
UnwatchLen ==
    /\ shPc = "u_len"
    /\ shPc' = IF NeedsUnregister(Watching(shCmd.kind)) THEN "u_unreg" ELSE "idle"
    /\ UNCHANGED <<notWatchVars, registryVars, shCmd, transportVars>>

\* lines 330, 336
UnwatchUnregister ==
    /\ shPc = "u_unreg"
    /\ SetCallback(shCmd.kind, unregister_callback(CallbackSlot(shCmd.kind)))
    /\ shCmd' = [shCmd EXCEPT !.unregs = @ + 1]
    /\ shPc' = "idle"
    /\ UNCHANGED <<notWatchVars, shell_watching_messages, shell_watching_properties, transportVars>>

\* what the device reports: a change of one of its properties, a message of
\* some type (one of them not in the catalog)
DeviceMessageTypes == MessageKeys \cup {"hello"}
EventNames(kind) == IF kind = "message" THEN DeviceMessageTypes ELSE AllProps

\* the properties with a definition: fwv is reported by the device and is not
\* in the catalog
DefinedProps == {"amp"}

\* the transport thread calls the callback the session holds
Deliver ==
    \E kind \in {"message", "property"} : \E name \in EventNames(kind) :
        /\ cbPc = "idle"
        /\ CallbackSlot(kind) = "shell"
        /\ cbEvent' = [kind |-> kind, name |-> name, result |-> ""]
        /\ cbLast' = NoEvent
        /\ cbPc' = "check"
        /\ UNCHANGED <<notWatchVars, registryVars, shellVars>>

\* lines 444, 451: the membership test of the callback
CallbackCheck ==
    /\ cbPc = "check"
    /\ IF IsWatched(cbEvent.name, Watching(cbEvent.kind))
       THEN cbPc' = "log" /\ UNCHANGED cbLast
       ELSE cbPc' = "idle" /\ cbLast' = [cbEvent EXCEPT !.result = "dropped"]
    /\ UNCHANGED <<notWatchVars, registryVars, shellVars, cbEvent>>

\* lines 445-447, 452: the notification is reported to the operator
CallbackLog ==
    /\ cbPc = "log"
    /\ cbLast' = [cbEvent EXCEPT !.result =
                     IF cbEvent.kind = "property" /\ cbEvent.name \notin DefinedProps
                     THEN "KeyError" ELSE "forwarded"]
    /\ cbPc' = "idle"
    /\ UNCHANGED <<notWatchVars, registryVars, shellVars, cbEvent>>

Init == CodecOff /\ BridgeOff /\ ConfigOff /\ WatchOff /\ HaOff /\ StartOff /\ SubstOff

Next ==
    \/ WatchBegin \/ WatchLen \/ WatchRegister \/ WatchIn \/ WatchAppend
    \/ UnwatchBegin \/ UnwatchRemove \/ UnwatchLen \/ UnwatchUnregister
    \/ Deliver \/ CallbackCheck \/ CallbackLog

Spec == Init /\ [][Next]_vars

\* the watched list of the last command's kind, before the command and now
WatchedBefore == IF shCmd.kind = "message" THEN shCmd.pre.msgs ELSE shCmd.pre.props
WatchedNow == IF shCmd.kind = "message" THEN shell_watching_messages
              ELSE shell_watching_properties
CommandDone == shPc = "idle" /\ shCmd.cmd \in {"watch", "unwatch"}
                   /\ shCmd.kind \in {"message", "property"}

\* C4: whenever a watch / unwatch command has completed, the shell's listener
\* of each kind is registered exactly if that kind's list is non-empty; the
\* command called register once exactly if it took the list from empty to
\* non-empty, and unregister once exactly if it took it from non-empty to empty.
C4_RegisteredIffWatched ==
    shPc = "idle" =>
        /\ (message_callback = "shell") <=> (shell_watching_messages # <<>>)
        /\ (property_callback = "shell") <=> (shell_watching_properties # <<>>)
        /\ CommandDone =>
            /\ shCmd.regs = IF WatchedBefore = <<>> /\ WatchedNow # <<>> THEN 1 ELSE 0
            /\ shCmd.unregs = IF WatchedBefore # <<>> /\ WatchedNow = <<>> THEN 1 ELSE 0

\* the last name of a kind was unwatched and its listener deregistered while
\* the other kind stays registered
C4_Witness ==
    /\ CommandDone /\ shCmd.cmd = "unwatch" /\ shCmd.kind = "property"
    /\ shCmd.unregs = 1 /\ property_callback = "none"
    /\ Len(shell_watching_messages) = 2 /\ message_callback = "shell"

\* the command was a watch of a watched name or an unwatch of a name not watched
Redundant ==
    /\ CommandDone
    /\ \/ shCmd.cmd = "watch" /\ shCmd.name \in SeqRange(WatchedBefore)
       \/ shCmd.cmd = "unwatch" /\ shCmd.name \notin SeqRange(WatchedBefore)

\* C5 (as claimed): watching a watched name and unwatching a name not watched
\* leave the lists and the registration unchanged and print an error.
C5_RedundantReportsError ==
    Redundant => (Registry = shCmd.pre /\ shCmd.out # "")

\* C5 (amended): both leave the lists and the registration unchanged and make no
\* register / unregister call; the unwatch prints an error, the watch prints
\* nothing.
C5_RedundantIsNoOp ==
    Redundant =>
        /\ Registry = shCmd.pre
        /\ shCmd.regs = 0 /\ shCmd.unregs = 0
        /\ shCmd.cmd = "unwatch" => shCmd.out = "ERROR: not watched"
        /\ shCmd.cmd = "watch" => shCmd.out = ""

\* a watched property was watched again
C5_Witness ==
    /\ Redundant /\ shCmd.cmd = "watch" /\ shCmd.kind = "property"
    /\ shell_watching_properties = <<"fwv", "amp">> /\ shCmd.name = "amp"

\* C6: a callback goes on to report a notification only if, at its membership
\* test, the name is in the watched list of its kind; a notification whose
\* name is not in the list then is dropped.
C6_ForwardOnlyIfWatched ==
    [][(cbPc = "check" /\ cbPc' # "check") =>
          IF cbEvent.name \in SeqRange(Watching(cbEvent.kind))
          THEN cbPc' = "log"
          ELSE cbPc' = "idle" /\ cbLast'.result = "dropped"]_vars

\* amp was unwatched, fwv keeps the listener registered, and a change of amp
\* delivered to the listener was dropped
C6_Witness ==
    /\ cbLast = [kind |-> "property", name |-> "amp", result |-> "dropped"]
    /\ CommandDone /\ shCmd.cmd = "unwatch" /\ shCmd.name = "amp" /\ shCmd.out = ""
    /\ shell_watching_properties = <<"fwv">> /\ property_callback = "shell"

\* where a command is between its check of the list and the end of its
\* mutation and (de)registration
MidCommand == {"w_reg", "w_in", "w_app", "u_rem", "u_len", "u_unreg"}

\* C7: no callback reads a watched list while a watch / unwatch command is
\* between its check of the list and its completion.
C7_ReadsExcludeCommands ==
    [][(cbPc = "check" /\ cbPc' # "check") => shPc \notin MidCommand]_vars

\* ------------------------------------------- Home Assistant start and stop

\* HA_TOPIC_CONFIG with a placeholder the substitution values do not have
HA_TOPIC_CONFIG_NODE ==
    <<Lit("homeassistant/"), Ph("nodeId"), Lit("/"), Ph("uniqueId"), Lit("/config")>>

\* wp.allProps.keys(): the device reports every property of the catalog
AllPropNames == [i \in DOMAIN wp_propdef |-> wp_propdef[i].key]

IsUnset(names) == names = <<>> \/ names = <<"">>

\* lines 798-809
ha_get_discovery_properties(ha_properties, propdef) ==
    IF IsUnset(ha_properties)
    THEN LET listed == SelectSeq(propdef, LAMBDA pd : pd.homeAssistant # "absent")
         IN  [i \in DOMAIN listed |-> listed[i].key]
    ELSE ha_properties

\* lines 666-671
mqtt_get_watched_properties(mqtt_properties) ==
    IF IsUnset(mqtt_properties) THEN AllPropNames ELSE mqtt_properties

EmptyPayload == PyStr(Atom(""))

RECURSIVE Retain(_, _)
\* mqtt_client.publish(topic, payload, retain=True), call after call
Retain(held, pubs) ==
    IF pubs = <<>> THEN held
    ELSE LET pub == Head(pubs)
             rest == [t \in DOMAIN held \ {pub.topic} |-> held[t]]
         IN  Retain((pub.topic :> pub.payload) @@ rest, Tail(pubs))

Documented(pubs) == {pubs[i].topic : i \in {j \in DOMAIN pubs : pubs[j].payload # EmptyPayload}}

HaInit ==
    /\ CodecOff /\ BridgeOff /\ WatchOff /\ StartOff /\ SubstOff
    /\ decompose \in BOOLEAN
    /\ mqttProperties \in {<<"">>, <<"amp", "nrg">>}
    /\ HA_TOPIC_CONFIG \in {HA_TOPIC_CONFIG_DEFAULT, HA_TOPIC_CONFIG_NODE}
    /\ HA_PROPERTIES \in {<<"">>, <<"amp", "nrg">>, <<"cci", "lmo", "nrg">>}
    /\ HA_ENABLED = "false" /\ mqtt_client = "none"
    /\ haPc = "idle" /\ haIdx = 1 /\ haRun = NoRun
    /\ retained = NoRetained /\ everDoc = {} /\ haPubs = <<>>
    /\ msgOut = NoMsg

StartRun(cmd, afterSetup) == [NoRun EXCEPT !.cmd = cmd, !.afterSetup = afterSetup]

\* do_ha start, lines 184-185, and ha_setup up to the return of mqtt_setup: the
\* two property lists are settled, a new client is connected and
\* mqtt_publish_message becomes the session's message callback
HaStart ==
    /\ haPc = "idle" /\ shPc = "idle"
    /\ LET ha_properties == ha_get_discovery_properties(HA_PROPERTIES, wp_propdef)
           mqtt_properties == IF IsUnset(mqttProperties) THEN ha_properties
                              ELSE mqttProperties
           command_topic == mqtt_subst_topic(MQTT_TOPIC_PROPERTY_SET, [propName |-> "+"], TRUE)
       IN  /\ HA_ENABLED' = "true"
           /\ HA_PROPERTIES' = ha_properties
           /\ IF command_topic.ok
              THEN /\ mqttProperties' = mqtt_get_watched_properties(mqtt_properties)
                   /\ message_callback' = register_callback(message_callback, "mqtt")
                   /\ haPc' = "discover"
                   /\ haRun' = StartRun("start", FALSE)
              ELSE /\ mqttProperties' = mqtt_properties
                   /\ UNCHANGED message_callback
                   /\ haPc' = "idle"
                   /\ haRun' = [StartRun("start", FALSE) EXCEPT !.raised = "KeyError"]
    /\ haIdx' = 1
    /\ haPubs' = <<>>
    /\ UNCHANGED <<notHaVars, decompose, HA_TOPIC_CONFIG, mqtt_client, retained, everDoc>>

\* one pass of the loop of ha_discover_properties, lines 816-818, through
\* client: the local client of ha_setup is connected, the global handle of
\* ha_stop may be None or a disconnected client
DiscoverStep(disable_discovery, client, nextPc) ==
    LET name == HA_PROPERTIES[haIdx]
        r == ha_discover_property(LookupIn(wp_propdef, name), disable_discovery,
                                  decompose, HA_TOPIC_CONFIG)
        noClient == client = "none" /\ r.pubs # <<>>
        sent == IF client = "connected" THEN r.pubs ELSE <<>>
        raised == IF noClient THEN "AttributeError" ELSE r.raised
    IN  /\ haPubs' = sent
        /\ retained' = Retain(retained, sent)
        /\ everDoc' = everDoc \cup Documented(sent)
        /\ IF raised # NoRaise
           THEN /\ haPc' = "idle"
                /\ haIdx' = 1
                /\ haRun' = [haRun EXCEPT !.attempted = Append(@, name),
                                          !.raised = raised, !.ended = TRUE]
           ELSE /\ haPc' = IF haIdx = Len(HA_PROPERTIES) THEN nextPc ELSE haPc
                /\ haIdx' = IF haIdx = Len(HA_PROPERTIES) THEN 1 ELSE haIdx + 1
                /\ haRun' = [haRun EXCEPT !.attempted = Append(@, name),
                                          !.ended = (haIdx = Len(HA_PROPERTIES))]

\* line 844: ha_discover_properties(mqtt_client, HA_PROPERTIES, False), one name
HaDiscover ==
    /\ haPc = "discover"
    /\ DiscoverStep(FALSE, "connected", "sleep")
    /\ UNCHANGED <<notHaVars, configVars, message_callback, haConfigVars>>

\* lines 846-851: the settle delay is over
HaSleep ==
    /\ haPc = "sleep"
    /\ haPc' = "initial"
    /\ haPubs' = <<>>
    /\ UNCHANGED <<notHaVars, configVars, message_callback, haConfigVars, haIdx, haRun,
                   retained, everDoc>>

\* lines 825-829: the value of one name, when the device has reported it, is
\* published; an exception ends ha_setup before mqtt_client is assigned
HaPublishInitial ==
    /\ haPc = "initial"
    /\ LET pd == LookupIn(wp_propdef, HA_PROPERTIES[haIdx]) IN
       \E r \in {Outcome(<<>>, NoRaise)} \cup
                  {mqtt_publish_property(pd, value, FALSE, decompose, mqttProperties) :
                      value \in RawsFor(pd)} :
           LET last == haIdx = Len(HA_PROPERTIES)
           IN  /\ haPubs' = r.pubs
               /\ IF r.raised # NoRaise
                  THEN /\ haPc' = "idle" /\ haIdx' = 1
                       /\ haRun' = [haRun EXCEPT !.raised = r.raised]
                       /\ UNCHANGED mqtt_client
                  ELSE /\ haPc' = IF last THEN "idle" ELSE haPc
                       /\ haIdx' = IF last THEN 1 ELSE haIdx + 1
                       /\ haRun' = [haRun EXCEPT !.done = last]
                       /\ mqtt_client' = IF last THEN "connected" ELSE mqtt_client
    /\ UNCHANGED <<notHaVars, configVars, message_callback, HA_TOPIC_CONFIG, HA_PROPERTIES,
                   HA_ENABLED, retained, everDoc>>

\* do_ha stop, line 187: ha_stop(mqtt_client) is entered
HaStop ==
    /\ haPc = "idle" /\ shPc = "idle"
    /\ haPc' = "retract"
    /\ haIdx' = 1
    /\ haRun' = StartRun("stop", haRun.cmd = "start" /\ haRun.done)
    /\ haPubs' = <<>>
    /\ UNCHANGED <<notHaVars, configVars, message_callback, haConfigVars, retained, everDoc>>

\* line 860: ha_discover_properties(mqtt_client, HA_PROPERTIES, True), one name;
\* a name of HA_PROPERTIES the schema does not have is a KeyError of line 817
HaRetract ==
    /\ haPc = "retract"
    /\ IF HasKey(wp_propdef, HA_PROPERTIES[haIdx])
       THEN DiscoverStep(TRUE, mqtt_client, "disconnect")
       ELSE /\ haPc' = "idle" /\ haIdx' = 1
            /\ haRun' = [haRun EXCEPT !.raised = "KeyError:name", !.ended = TRUE]
            /\ UNCHANGED busVars
    /\ UNCHANGED <<notHaVars, configVars, message_callback, haConfigVars>>

\* line 861 and line 188: mqtt_stop disconnects a connected client, and
\* HA_ENABLED becomes 'false'
HaDisconnect ==
    /\ haPc = "disconnect"
    /\ haPc' = "idle"
    /\ haPubs' = <<>>
    /\ IF mqtt_client = "none"
       THEN /\ haRun' = [haRun EXCEPT !.raised = "AttributeError"]
            /\ UNCHANGED <<mqtt_client, HA_ENABLED>>
       ELSE /\ haRun' = [haRun EXCEPT !.done = TRUE]
            /\ mqtt_client' = "disconnected"
            /\ HA_ENABLED' = "false"
    /\ UNCHANGED <<notHaVars, configVars, message_callback, HA_TOPIC_CONFIG, HA_PROPERTIES,
                   haIdx, retained, everDoc>>

\* do_mqtt start, lines 219-221: mqtt_setup connects a client, settles
\* MQTT_PROPERTIES and makes mqtt_publish_message the session's message callback
MqttStart ==
    /\ haPc = "idle" /\ shPc = "idle"
    /\ mqttProperties' = mqtt_get_watched_properties(mqttProperties)
    /\ message_callback' = register_callback(message_callback, "mqtt")
    /\ mqtt_client' = "connected"
    /\ haRun' = [StartRun("mqtt start", FALSE) EXCEPT !.done = TRUE]
    /\ haPubs' = <<>>
    /\ UNCHANGED <<notHaVars, decompose, HA_TOPIC_CONFIG, HA_PROPERTIES, HA_ENABLED,
                   haPc, haIdx, retained, everDoc>>

\* do_mqtt stop, lines 222-224: mqtt_stop(mqtt_client) disconnects a connected
\* client; the handle and the message callback stay as they are
MqttStop ==
    /\ haPc = "idle" /\ shPc = "idle"
    /\ IF mqtt_client = "none"
       THEN /\ haRun' = [StartRun("mqtt stop", FALSE) EXCEPT !.raised = "AttributeError"]
            /\ UNCHANGED mqtt_client
       ELSE /\ haRun' = [StartRun("mqtt stop", FALSE) EXCEPT !.done = TRUE]
            /\ mqtt_client' = "disconnected"
    /\ haPubs' = <<>>
    /\ UNCHANGED <<notHaVars, configVars, message_callback, HA_TOPIC_CONFIG, HA_PROPERTIES,
                   HA_ENABLED, haPc, haIdx, retained, everDoc>>

\* properties a status message carries
StatusProps == {"amp", "lmo"}

\* lines 577-600 for a message whose status holds one property: what the
\* callback did and how many publish calls it made on the global mqtt_client
\* (MQTT_PUBLISH_MESSAGES 'false', MQTT_PUBLISH_PROPERTIES 'true', the defaults)
mqtt_publish_message(client, type, name, value, decomp, mqtt_properties) ==
    IF client = "none" THEN [result |-> "no client", attempts |-> 0]
    ELSE IF type \notin {"fullStatus", "deltaStatus"}
    THEN [result |-> "not a status", attempts |-> 0]
    ELSE IF ~HasKey(wp_propdef, name) THEN [result |-> "KeyError", attempts |-> 0]
    ELSE LET r == mqtt_publish_property(LookupIn(wp_propdef, name), value, FALSE,
                                        decomp, mqtt_properties)
         IN  [result |-> IF r.raised # NoRaise THEN r.raised
                         ELSE IF r.pubs = <<>> THEN "filtered"
                         ELSE IF client = "connected" THEN "published"
                         ELSE "not connected",
              attempts |-> Len(r.pubs)]

\* the transport thread delivers a device message to mqtt_publish_message, the
\* callback the session holds
BridgeMessage ==
    /\ message_callback = "mqtt" /\ cbPc = "idle"
    /\ \E type \in DeviceMessageTypes, name \in StatusProps :
       \E value \in Bits :
           LET r == mqtt_publish_message(mqtt_client, type, name, value,
                                         decompose, mqttProperties)
           IN  msgOut' = [client |-> mqtt_client, during |-> haPc,
                          result |-> r.result, attempts |-> r.attempts]
    /\ UNCHANGED notMessageVars

HaNext == HaStart \/ HaDiscover \/ HaSleep \/ HaPublishInitial
              \/ HaStop \/ HaRetract \/ HaDisconnect
              \/ MqttStart \/ MqttStop \/ BridgeMessage

SpecHA == HaInit /\ [][HaNext]_vars

\* C8: when the substitution of a template fails for one property of a
\* discovery batch, the batch still visits every name of the list.
C8_BatchContinues ==
    (haRun.ended /\ haRun.raised = "KeyError") => haRun.attempted = HA_PROPERTIES

\* C10: once ha_stop has returned after a completed ha_setup, the last payload
\* published to every config topic that ever received a document is empty.
C10_RetractionCoversPublication ==
    (haRun.cmd = "stop" /\ haRun.afterSetup /\ haRun.done) =>
        \A t \in everDoc : t \in DOMAIN retained /\ retained[t] = EmptyPayload

\* the document of nrg0, reached through the decomposition of nrg only, was
\* published and withdrawn
C10_Witness ==
    /\ haRun.cmd = "stop" /\ haRun.afterSetup /\ haRun.done
    /\ "homeassistant/sensor/wattpilot_S1_nrg0/config" \in everDoc
    /\ "homeassistant/number/wattpilot_S1_amp/config" \in everDoc

\* ----------------------------------------------------------------- startup

\* keys of a catalog's definitions: few, so that definitions collide
CatalogKeys == {"a", "b"}
\* the jsonType of the i-th top-level definition and of its children, which
\* tells the definitions of one key apart
ParentTypes == <<"integer", "string", "boolean", "float">>

ChildLists(i) ==
    {[j \in DOMAIN ks |-> ArrayChild(ks[j], ParentTypes[i], j - 1)] :
        ks \in SeqsUpTo(CatalogKeys, MaxChildren)}
ParentsAt(i) ==
    {WithChildren(PropDef(k, ParentTypes[i], "R", <<>>), cs) :
        k \in CatalogKeys, cs \in ChildLists(i)}
RECURSIVE CatalogsOfLen(_)
CatalogsOfLen(n) ==
    IF n = 0 THEN {<<>>}
    ELSE {Append(c, p) : c \in CatalogsOfLen(n - 1), p \in ParentsAt(n)}
Catalogs == UNION {CatalogsOfLen(n) : n \in 0 .. MaxParents}

\* wpcfg = {} of line 66
NotLoaded == [hasProperties |-> FALSE, properties |-> <<>>]

StartInit ==
    /\ CodecOff /\ BridgeOff /\ ConfigOff /\ WatchOff /\ HaOff /\ SubstOff
    /\ catalogSource \in {Unparsable} \cup {Parsed(c) : c \in Catalogs}
    /\ wpcfg = NotLoaded
    /\ mainPc = "read"

\* line 950: wp_read_config(); a yaml.YAMLError is logged and the wpcfg built
\* so far, {}, is returned (lines 84-86)
MainReadConfig ==
    /\ mainPc = "read"
    /\ wpcfg' = IF catalogSource.parses
                THEN Loaded(wp_read_config(catalogSource.properties))
                ELSE NotLoaded
    /\ mainPc' = "bind"
    /\ UNCHANGED <<notStartVars, catalogSource>>

\* line 951: wp_propdef = wpcfg["properties"], a KeyError when the key is not
\* there, which ends main
MainBindSchema ==
    /\ mainPc = "bind"
    /\ mainPc' = IF wpcfg.hasProperties THEN "connect" ELSE "aborted"
    /\ UNCHANGED <<notStartVars, catalogSource, wpcfg>>

\* lines 954-961: the globals are initialised and the device is connected
MainConnect ==
    /\ mainPc = "connect"
    /\ mainPc' = "setup"
    /\ UNCHANGED <<notStartVars, catalogSource, wpcfg>>

\* lines 964-972: MQTT / HA setup, then the command loop
MainSetup ==
    /\ mainPc = "setup"
    /\ mainPc' = "loop"
    /\ UNCHANGED <<notStartVars, catalogSource, wpcfg>>

StartNext == MainReadConfig \/ MainBindSchema \/ MainConnect \/ MainSetup

SpecStart == StartInit /\ [][StartNext]_vars

\* the declarations of a catalog in declaration order: each definition, then
\* its children, each child with its parent's key as compoundProperty
RECURSIVE Declarations(_)
Declarations(ps) ==
    IF ps = <<>> THEN <<>>
    ELSE LET p == Head(ps)
             cs == [j \in DOMAIN p.childProps |->
                       [p.childProps[j] EXCEPT !.compoundProperty = p.key]]
         IN  <<[p EXCEPT !.childProps = cs]>> \o cs \o Declarations(Tail(ps))

\* the declarations that are the first of their key, in order
FirstDeclared(ps) ==
    LET ds == Declarations(ps)
        firsts == {i \in DOMAIN ds : \A h \in 1 .. (i - 1) : ds[h].key # ds[i].key}
        Nth(n) == CHOOSE i \in firsts : Cardinality({h \in firsts : h < i}) = n - 1
    IN  [n \in 1 .. Cardinality(firsts) |-> ds[Nth(n)]]

\* C11: for every catalog that parses, loading returns a property map that
\* binds each declared key to the first declaration of that key (top-level or
\* child, in declaration order) and nothing else; every child in the map
\* carries its parent's key as compoundProperty.
C11_FirstWriterWins ==
    (catalogSource.parses /\ mainPc # "read") =>
        /\ wpcfg.hasProperties
        /\ wpcfg.properties = FirstDeclared(catalogSource.properties)

\* two top-level definitions of one key, two children each, every child of
\* the other key: the map holds the first definition and its first child
C11_Witness ==
    /\ catalogSource.parses /\ mainPc = "loop"
    /\ Len(Declarations(catalogSource.properties)) = 6
    /\ Len(wpcfg.properties) = 2
    /\ wpcfg.properties[1].jsonType = "integer"
    /\ wpcfg.properties[2].jsonType = "integer"
    /\ wpcfg.properties[2].compoundProperty = wpcfg.properties[1].key

\* C12: when the catalog does not parse, wp_read_config returns no value to
\* main: main is at the load or has ended, and is never past the load with
\* what the load returned.
C12_UnparsableFailsLoading ==
    ~catalogSource.parses => mainPc \in {"read", "aborted"}

\* the definitions a batch documents: each listed property and, under the
\* decomposition toggle, its children, recursively
RECURSIVE DocumentedWith(_)
DocumentedWith(pd) ==
    {pd} \cup (IF decompose
               THEN UNION {DocumentedWith(pd.childProps[i]) : i \in DOMAIN pd.childProps}
               ELSE {})
BatchTopics ==
    {ConfigTopicFor(d, ComponentOf(d)) :
        d \in UNION {DocumentedWith(LookupIn(wp_propdef, HA_PROPERTIES[i])) :
                        i \in DOMAIN HA_PROPERTIES}}
StatePublished == \E i \in DOMAIN haPubs : ~haPubs[i].retain
ConfigPublished == \E i \in DOMAIN haPubs : haPubs[i].retain

\* C13: when the settle delay of ha_setup starts, the loop has visited every
\* name of the batch and every config topic of the batch (children included)
\* holds a document; ha_setup publishes config documents only before the delay
\* and property state values only after the delay has completed.
C13_ConfigThenDelayThenState ==
    /\ [](haPc = "sleep" =>
            /\ haRun.attempted = HA_PROPERTIES
            /\ \A t \in BatchTopics : t \in DOMAIN retained /\ retained[t] # EmptyPayload)
    /\ [][(haPubs' # haPubs /\ StatePublished') => haPc = "initial"]_vars
    /\ [][(haPubs' # haPubs /\ ConfigPublished' /\ haRun'.cmd = "start")
             => haPc = "discover"]_vars

\* a setup has returned whose last step published a state value, after the
\* documents of nrg and of its children
C13_Witness ==
    /\ haRun.cmd = "start" /\ haRun.done /\ StatePublished
    /\ "homeassistant/sensor/wattpilot_S1_nrg0/config" \in DOMAIN retained
    /\ retained["homeassistant/sensor/wattpilot_S1_nrg0/config"] # EmptyPayload

\* C18: a device message makes mqtt_publish_message attempt a publish only
\* while the bridge is running: on a connected client, and not while a
\* ha_setup is between its start and the end of its settle delay and initial
\* values.
C18_PublishOnlyWhileRunning ==
    msgOut.attempts > 0 =>
        /\ msgOut.client = "connected"
        /\ msgOut.during \notin {"discover", "sleep", "initial"}

\* ------------------------------------- the shell's watch beside the bridge

\* the watch commands and callbacks of the shell together with mqtt start /
\* stop and the bridge's message callback
SharedNext == Next \/ MqttStart \/ MqttStop \/ BridgeMessage

SpecShared == Init /\ [][SharedNext]_vars

\* C17: while the bridge is started, watch message / unwatch message commands
\* leave mqtt_publish_message registered as the session's message callback.
C17_BridgeListenerStays ==
    mqtt_client = "connected" => message_callback = "mqtt"

\* --------------------------------------------- the codec's fallbacks

IsScalar(v) == v.t \in {"bool", "int", "float", "str"}
\* the entries of pd.valueMap whose raw key is str(v)
KeyedBy(pd, v) == {i \in DOMAIN pd.valueMap : Atom(pd.valueMap[i].raw) = PyStrOf(v)}
\* the entries of pd.valueMap whose label is the display value
LabelledBy(pd, shown) ==
    {i \in DOMAIN pd.valueMap : PyEq(PyStr(Atom(pd.valueMap[i].label)), shown)}

\* C14: decoding a textual wire value never raises; a display value that is
\* no label of pd.valueMap comes back unchanged.
C14_DecodeNeverRaises ==
    cPc = "parsed" =>
        /\ ~IsError(cOut)
        /\ (~DecodesAsJson(cPd) /\ LabelledBy(cPd, cWire) = {}) => cOut = cWire

\* C15: for a scalar v, mqtt_get_mapped_value returns pd.valueMap[str(v)]
\* when str(v) is a key of the valueMap, and v itself when there is no
\* valueMap or no such key; it does not raise.
C15_MapValueFallback ==
    (cPc = "mapped" /\ IsScalar(cValue)) =>
        /\ ~IsError(cOut)
        /\ IF KeyedBy(cPd, cValue) # {}
           THEN \E i \in KeyedBy(cPd, cValue) : cOut = PyStr(Atom(cPd.valueMap[i].label))
           ELSE cOut = cValue

\* a key that is found (the float 1.0 under "1.0")
C15_Witness ==
    /\ cPc = "mapped" /\ cPd.key = "fm"
    /\ cValue = PyFloat(10) /\ cOut = PyStr(Atom("Full"))

\* ------------------------------------------------------ topic substitution

\* the pieces of a template: '~', a literal, placeholders with and without a
\* value
TemplatePieces == {Lit("~"), Lit("/set"), Ph("propName"), Ph("baseTopic"), Ph("nodeId")}
Templates == SeqsUpTo(TemplatePieces, MaxLen + 1)

SubstInit ==
    /\ CodecOff /\ BridgeOff /\ ConfigOff /\ WatchOff /\ HaOff /\ StartOff
    /\ \E tpl \in Templates, expand \in BOOLEAN, propName \in {"amp", "+"} :
          subst = [NoSubst EXCEPT !.tpl = tpl, !.expand = expand, !.propName = propName]

\* mqtt_subst_topic(s, {"propName": ...}, expand), lines 605-611
SubstTopic ==
    /\ ~subst.done
    /\ subst' = [subst EXCEPT
                    !.done = TRUE,
                    !.out = mqtt_subst_topic(subst.tpl, [propName |-> subst.propName],
                                             subst.expand)]
    /\ UNCHANGED notSubstVars

SubstNext == SubstTopic

SpecTopic == SubstInit /\ [][SubstNext]_vars

\* the template after the expansion the claim describes: the base template in
\* place of a '~' at position 0 when expansion is requested, every other '~'
\* as it is
AfterExpansion ==
    IF subst.expand /\ subst.tpl # <<>> /\ subst.tpl[1] = Lit("~")
    THEN MQTT_TOPIC_PROPERTY_BASE \o SubSeq(subst.tpl, 2, Len(subst.tpl))
    ELSE subst.tpl
SubstValues == [baseTopic |-> MQTT_TOPIC_BASE, propName |-> subst.propName]

\* C16: with expansion requested only a '~' at position 0 is replaced by the
\* property-base template, before the placeholders are substituted (so the
\* base template's placeholders are resolved); any other '~', and every '~'
\* without expansion, stays in the topic.
C16_TildeAtStartOnly ==
    (subst.done /\ Placeholders(AfterExpansion) \subseteq DOMAIN SubstValues) =>
        /\ subst.out.ok
        /\ subst.out.topic = Format(AfterExpansion, SubstValues)

\* '~/set' for amp gives 'wattpilot/properties/amp/set'
C16_Witness ==
    /\ subst.done /\ subst.expand /\ subst.propName = "amp"
    /\ subst.tpl = <<Lit("~"), Lit("/set")>>
    /\ subst.out = [ok |-> TRUE, topic |-> "wattpilot/properties/amp/set"]

\* C19: every watched property name is a key of the schema's property map,
\* and no change notification of a watched name ends in the callback's schema
\* lookup raising.
C19_WatchedAreInSchema ==
    /\ \A i \in DOMAIN shell_watching_properties :
          shell_watching_properties[i] \in DefinedProps
    /\ cbLast.result # "KeyError"

====
